---------------------------- MODULE Spec2Model ----------------------------
(***************************************************************************)
(* Model of the Glance operator charm (src/src/charm.py).                  *)
(*                                                                         *)
(* The charm is event driven: the hosting runtime delivers one lifecycle   *)
(* event at a time and every event funnels into configure_charm, which    *)
(* runs to completion (or returns early, or aborts on an exception)        *)
(* before the next event.  The state is what configure_charm reads (the    *)
(* ceph relation, the parent handler's readiness, the negotiated key, the  *)
(* attached local storage, pebble readiness, the other relation handlers)  *)
(* and what it writes (unit status, commands run in the container, the     *)
(* rendered configuration, the bootstrap flag, the service).               *)
(*                                                                         *)
(* The base classes (advanced_sunbeam_openstack) are external to the       *)
(* repository.  What the charm reads from them is environment state that   *)
(* changes freely; what it calls on them is modelled at the call site.     *)
(***************************************************************************)
EXTENDS Naturals, Sequences, FiniteSets

\* Largest number of 'local-repository' storages attached to the unit.
MaxStorages == 2

\* self.ceph.key while the key has not been negotiated (None, falsy).
NoKey == ""

\* Credential keys the ceph peer may hand out.
Keys == {"AQC1", "AQC2"}

VARIABLES
    other_handlers_ready, \* every handler of super().get_relation_handlers() is ready
    ceph_relation,        \* self.model.get_relation('ceph') is not None
    ceph_parent_ready,    \* CephClientHandler.ready, read by super().ready
    ceph_key,             \* self.ceph.key
    storages,             \* len(self.model.storages['local-repository'])
    pebble_ready,         \* get_named_pebble_handler("glance-api").pebble_ready
    unit_status,          \* self.unit.status
    bootstrapped,         \* self._state.bootstrapped
    container,            \* effects of ph.execute in the workload container
    rendered,             \* what the last ph.init_service(self.contexts()) wrote
    service_started,      \* handler.start_service() has been called
    run                   \* the configure_charm invocation that has just run

vars == <<other_handlers_ready, ceph_relation, ceph_parent_ready, ceph_key,
          storages, pebble_ready, unit_status, bootstrapped, container,
          rendered, service_started, run>>

env_vars == <<other_handlers_ready, ceph_relation, ceph_parent_ready,
              ceph_key, storages, pebble_ready>>

charm_vars == <<unit_status, bootstrapped, container, rendered,
                service_started>>

---------------------------------------------------------------------------
(* Constants of the charm                                                  *)

BlockedStatus == "Blocked: Missing storage. Relate to Ceph or add local storage to continue."

ActiveStatus == "Active"

\* The status of a unit whose charm has not set one yet.
UnknownStatus == "Unknown"

ceph_conf == "/etc/ceph/ceph.conf"

service_conf == "/etc/glance/glance-api.conf"

\* The command lines of the three ph.execute calls.
AptUpdate == "apt update"

AptInstall == "apt install -y ceph-common"

CephAuthtool == "ceph-authtool --create-keyring --add-key="

---------------------------------------------------------------------------
(* GlanceOperatorCharm: queries                                            *)

\* has_local_storage with an off-by-one comparison.
has_local_storage_off_by_one == storages > 1

has_local_storage == storages > 0

has_ceph_relation == ceph_relation

\* super().ready of GlanceStorageRelationHandler: the parent's own check.
super_ready == ceph_parent_ready

\* ready without the return of line 64: the parent's answer is dropped and
\* the local storage check decides.
ready_falls_through == IF has_local_storage THEN TRUE ELSE FALSE

\* ready asking for local storage next to a ready ceph relation.
ready_needs_local ==
    IF has_ceph_relation
    THEN super_ready /\ has_local_storage
    ELSE IF has_local_storage THEN TRUE ELSE FALSE

(* GlanceStorageRelationHandler.ready *)
ready ==
    IF has_ceph_relation
    THEN super_ready
    ELSE IF has_local_storage THEN TRUE ELSE FALSE

\* super().context(): the attributes negotiated over the ceph relation, as
\* a set of <<attribute, value>> pairs.
super_context == {<<"key", ceph_key>>}

\* context without the test of line 80: the parent's mapping always.
context_always_super == super_context

(* GlanceStorageRelationHandler.context *)
context == IF has_ceph_relation THEN super_context ELSE {}

\* super().config_contexts
super_config_contexts == <<"options">>

(* GlanceOperatorCharm.config_contexts *)
config_contexts ==
    IF has_ceph_relation
    THEN super_config_contexts \o <<"ceph_config", "cinder_ceph">>
    ELSE super_config_contexts

\* super().container_configs
super_container_configs == <<service_conf>>

\* container_configs adding ceph.conf only once the key is there.
container_configs_with_key ==
    IF has_ceph_relation /\ ceph_key # NoKey
    THEN super_container_configs \o <<ceph_conf>>
    ELSE super_container_configs

(* GlanceOperatorCharm.container_configs *)
container_configs ==
    IF has_ceph_relation
    THEN super_container_configs \o <<ceph_conf>>
    ELSE super_container_configs

\* super().get_relation_handlers(), as one handler standing for them all.
super_get_relation_handlers == <<"base">>

\* get_relation_handlers without line 140: the storage handler is built but
\* not registered.
get_relation_handlers_without_ceph == super_get_relation_handlers

(* GlanceOperatorCharm.get_relation_handlers *)
get_relation_handlers == Append(super_get_relation_handlers, "ceph")

handler_ready(h) == IF h = "ceph" THEN ready ELSE other_handlers_ready

\* self.relation_handlers_ready(): every registered handler is ready.
relation_handlers_ready ==
    \A i \in DOMAIN get_relation_handlers :
        handler_ready(get_relation_handlers[i])

\* self.contexts(): the handlers' contexts and the config contexts that
\* init_service renders into the container's configuration files.
contexts ==
    [config |-> config_contexts, ceph |-> context, files |-> container_configs]

---------------------------------------------------------------------------
(* GlanceOperatorCharm.configure_charm                                     *)

\* The storage gate without the key check of lines 196-198.
storage_gate_no_key_check ==
    IF has_ceph_relation
    THEN "ceph"
    ELSE IF has_local_storage THEN "local" ELSE "blocked"

\* The storage gate falling back to local storage while the key is absent.
storage_gate_local_fallback ==
    IF has_ceph_relation /\ ceph_key # NoKey
    THEN "ceph"
    ELSE IF has_local_storage THEN "local"
    ELSE IF has_ceph_relation THEN "wait_key" ELSE "blocked"

\* The storage gate remembering a ceph backend it provisioned before: a
\* keyring left in the container counts as the relation being there.
storage_gate_sticky ==
    IF has_ceph_relation \/ container.keyring # NoKey
    THEN IF ceph_key = NoKey THEN "wait_key" ELSE "ceph"
    ELSE IF has_local_storage THEN "local" ELSE "blocked"

\* The storage gate treating a missing key as missing storage.
storage_gate_blocked_without_key ==
    IF has_ceph_relation
    THEN IF ceph_key = NoKey THEN "blocked" ELSE "ceph"
    ELSE IF has_local_storage THEN "local" ELSE "blocked"

\* Lines 195-206: the storage gate.
storage_gate ==
    IF has_ceph_relation
    THEN IF ceph_key = NoKey THEN "wait_key" ELSE "ceph"
    ELSE IF has_local_storage THEN "local" ELSE "blocked"

\* Line 210 with the test negated: the two branches swapped.
setup_ceph_negated == ~(has_ceph_relation /\ ceph_key # NoKey)

\* Line 210: whether the ceph client is provisioned in the container.
setup_ceph == has_ceph_relation /\ ceph_key # NoKey

Call(op, key) == [op |-> op, key |-> key]

\* The three commands with the keyring created before the client is
\* installed.
ceph_commands_keyring_first ==
    << Call(CephAuthtool, ceph_key), Call(AptUpdate, NoKey),
       Call(AptInstall, NoKey) >>

\* Lines 212-225: the three ph.execute calls, in order.
ceph_commands ==
    << Call(AptUpdate, NoKey), Call(AptInstall, NoKey),
       Call(CephAuthtool, ceph_key) >>

\* The effect of one successful command on the container.
Execute(c, cmd) ==
    IF cmd.op = AptUpdate THEN [c EXCEPT !.apt_updated = TRUE]
    ELSE IF cmd.op = AptInstall THEN [c EXCEPT !.ceph_common = TRUE]
    ELSE [c EXCEPT !.keyring = cmd.key]

RECURSIVE ExecuteAll(_, _)
ExecuteAll(c, cmds) ==
    IF cmds = <<>> THEN c
    ELSE ExecuteAll(Execute(c, Head(cmds)), Tail(cmds))

\* The commands issued when the fail_at-th one fails (0: none fails): those
\* up to and including the failing one; exception_on_error=True raises
\* there.
issued(cmds, fail_at) ==
    IF fail_at = 0 THEN cmds ELSE SubSeq(cmds, 1, fail_at)

\* The commands that took effect: those before the failing one.
applied(cmds, fail_at) ==
    IF fail_at = 0 THEN cmds ELSE SubSeq(cmds, 1, fail_at - 1)

\* The first gate left out.
deferring_never == FALSE

\* Line 191: the first gate, over every registered relation handler.
deferring == ~relation_handlers_ready

\* Line 209 testing the bootstrap flag in place of pebble readiness.
init_gate_bootstrapped == bootstrapped

\* Line 209 without the test: the container is provisioned and rendered
\* whether or not pebble is ready.
init_gate_always == TRUE

\* Line 209: the pebble handler of the glance-api container is ready.
init_gate == pebble_ready

\* exception_on_error=False: a failing command is ignored.
exception_on_error_false(failed) == FALSE

\* exception_on_error=True (lines 214, 217, 225): a failing command raises,
\* which ends the invocation.
exception_on_error(failed) == failed # 0

\* Line 230, super().configure_charm(event): the base class completes the
\* bootstrap (sets the flag and the active status) once the container is
\* ready, and returns early otherwise.
super_configure_completes == pebble_ready

\* Line 231 with the test negated.
start_gate_negated(flag_after_super) == ~flag_after_super

\* Line 231 without the test: the service is started unconditionally.
start_gate_always(flag_after_super) == TRUE

\* Line 231: the flag is read after the inherited step.
start_gate(flag_after_super) == flag_after_super

\* No invocation since the last event.
Idle ==
    [path |-> "idle", calls |-> <<>>, failed |-> 0, raised |-> FALSE,
     again |-> FALSE]

\* The record of an invocation: the branch it took, the calls it made in
\* order, the command that failed (0: none), whether it ended in an
\* exception, and whether it followed another invocation with no event in
\* between.
Run(path, calls, failed, raised) ==
    [path |-> path, calls |-> calls, failed |-> failed, raised |-> raised,
     again |-> run.path # "idle"]

\* One invocation of configure_charm; fail_at names the ph.execute call
\* that fails in it, if any.
configure_charm(fail_at) ==
    /\ UNCHANGED env_vars
    /\ IF deferring
       THEN \* lines 191-193
            /\ run' = Run("relations_not_ready", <<>>, 0, FALSE)
            /\ UNCHANGED charm_vars
       ELSE IF storage_gate = "wait_key"
       THEN \* lines 196-198
            /\ run' = Run("wait_key", <<>>, 0, FALSE)
            /\ UNCHANGED charm_vars
       ELSE IF storage_gate = "blocked"
       THEN \* lines 201-206
            /\ unit_status' = BlockedStatus
            /\ run' = Run("blocked", <<>>, 0, FALSE)
            /\ UNCHANGED <<bootstrapped, container, rendered, service_started>>
       ELSE
         LET cmds    == IF init_gate /\ setup_ceph THEN ceph_commands ELSE <<>>
             failed  == IF fail_at <= Len(cmds) THEN fail_at ELSE 0
             raised  == exception_on_error(failed)
             execs   == IF raised THEN issued(cmds, failed) ELSE cmds
             done    == IF raised THEN applied(cmds, failed)
                        ELSE SelectSeq(cmds, LAMBDA c : failed = 0 \/ c # cmds[failed])
             init    == IF init_gate THEN <<Call("init_service", NoKey)>> ELSE <<>>
             super   == <<Call("super.configure_charm", NoKey)>>
             boot    == bootstrapped \/ super_configure_completes
             start   == IF start_gate(boot)
                        THEN <<Call("start_service", NoKey)>> ELSE <<>>
         IN  /\ container' = ExecuteAll(container, done)
             /\ IF raised
                THEN \* ph.execute raised: the invocation ends here
                     /\ run' = Run(storage_gate, execs, failed, TRUE)
                     /\ UNCHANGED <<unit_status, bootstrapped, rendered,
                                    service_started>>
                ELSE /\ rendered' = IF init_gate THEN contexts ELSE rendered
                     /\ bootstrapped' = boot
                     /\ unit_status' = IF super_configure_completes
                                       THEN ActiveStatus ELSE unit_status
                     /\ service_started' = (service_started \/ start_gate(boot))
                     /\ run' = Run(storage_gate,
                                   execs \o init \o super \o start, failed,
                                   FALSE)

ConfigureCharm == \E fail_at \in 0..3 : configure_charm(fail_at)

---------------------------------------------------------------------------
(* The environment: what the hosting runtime and the peers change between  *)
(* invocations.                                                            *)

Event(changed) ==
    /\ run' = Idle
    /\ UNCHANGED charm_vars
    /\ UNCHANGED changed

CephRelationCreated ==
    /\ ~ceph_relation
    /\ ceph_relation' = TRUE
    /\ Event(<<other_handlers_ready, ceph_parent_ready, ceph_key, storages,
               pebble_ready>>)

\* The relation goes away, and its data with it.
CephRelationBroken ==
    /\ ceph_relation
    /\ ceph_relation' = FALSE
    /\ ceph_key' = NoKey
    /\ Event(<<other_handlers_ready, ceph_parent_ready, storages,
               pebble_ready>>)

\* The peer publishes, replaces or withdraws the credential key.
CephKeyChanged ==
    /\ ceph_relation
    /\ \E k \in Keys \cup {NoKey} : ceph_key' = k
    /\ ceph_key' # ceph_key
    /\ Event(<<other_handlers_ready, ceph_relation, ceph_parent_ready,
               storages, pebble_ready>>)

\* The parent handler's own readiness check changes its answer.
CephParentReadyChanged ==
    /\ ceph_relation
    /\ ceph_parent_ready' = ~ceph_parent_ready
    /\ Event(<<other_handlers_ready, ceph_relation, ceph_key, storages,
               pebble_ready>>)

StorageAttached ==
    /\ storages < MaxStorages
    /\ storages' = storages + 1
    /\ Event(<<other_handlers_ready, ceph_relation, ceph_parent_ready,
               ceph_key, pebble_ready>>)

StorageDetaching ==
    /\ storages > 0
    /\ storages' = storages - 1
    /\ Event(<<other_handlers_ready, ceph_relation, ceph_parent_ready,
               ceph_key, pebble_ready>>)

PebbleReadyChanged ==
    /\ pebble_ready' = ~pebble_ready
    /\ Event(<<other_handlers_ready, ceph_relation, ceph_parent_ready,
               ceph_key, storages>>)

OtherHandlersChanged ==
    /\ other_handlers_ready' = ~other_handlers_ready
    /\ Event(<<ceph_relation, ceph_parent_ready, ceph_key, storages,
               pebble_ready>>)

---------------------------------------------------------------------------

Init ==
    /\ other_handlers_ready = FALSE
    /\ ceph_relation = FALSE
    /\ ceph_parent_ready = FALSE
    /\ ceph_key = NoKey
    /\ storages \in 0..MaxStorages
    /\ pebble_ready = FALSE
    /\ unit_status = UnknownStatus
    /\ bootstrapped = FALSE
    /\ container = [apt_updated |-> FALSE, ceph_common |-> FALSE,
                    keyring |-> NoKey]
    /\ rendered = [config |-> <<>>, ceph |-> {}, files |-> <<>>]
    /\ service_started = FALSE
    /\ run = Idle

Next ==
    \/ ConfigureCharm
    \/ CephRelationCreated
    \/ CephRelationBroken
    \/ CephKeyChanged
    \/ CephParentReadyChanged
    \/ StorageAttached
    \/ StorageDetaching
    \/ PebbleReadyChanged
    \/ OtherHandlersChanged

Spec == Init /\ [][Next]_vars

\* The runtime keeps delivering events, each of which invokes
\* configure_charm: an invocation that would change the state is not
\* postponed for ever.
FairSpec == Spec /\ WF_vars(ConfigureCharm)

---------------------------------------------------------------------------
(* Vocabulary of the properties                                            *)

\* configure_charm has just run, and no event has been delivered since: the
\* environment is the one the invocation read.
Invoked == run.path # "idle"

Commands == {AptUpdate, AptInstall, CephAuthtool}

Called(calls, op) == \E i \in DOMAIN calls : calls[i].op = op

Executed(calls) == SelectSeq(calls, LAMBDA c : c.op \in Commands)

---------------------------------------------------------------------------
(* C1: precedence of networked storage.  Whenever the ceph relation is     *)
(* present and the parent's readiness check fails, the handler's ready is  *)
(* False whatever the number of local storages, and an invocation of       *)
(* configure_charm in such a state does not take the local-storage branch. *)
C1_CephPrecedence ==
    /\ (has_ceph_relation /\ ~super_ready) => ~ready
    /\ (Invoked /\ has_ceph_relation /\ ~super_ready) => run.path # "local"

\* An invocation with local storage attached, every other handler ready,
\* and the ceph relation present but not ready.
C1_Witness ==
    /\ has_ceph_relation /\ ~super_ready /\ storages > 0
    /\ other_handlers_ready
    /\ run.path = "relations_not_ready"

(* C2: a present and ready ceph relation makes the handler ready whatever  *)
(* the local storage count; the backend an invocation then selects is      *)
(* never local storage, and when it selects ceph the key it carries into   *)
(* the keyring command is the relation's key.                              *)
C2_CephReady ==
    /\ (has_ceph_relation /\ super_ready) => ready
    /\ (Invoked /\ has_ceph_relation /\ super_ready) =>
          /\ run.path # "local"
          /\ run.path = "ceph" =>
                /\ ceph_key # NoKey
                /\ \A i \in DOMAIN run.calls :
                      run.calls[i].op = CephAuthtool =>
                          run.calls[i].key = ceph_key

\* The ceph backend selected, and its keyring created, with local storage
\* attached as well.
C2_Witness ==
    /\ has_ceph_relation /\ super_ready /\ storages > 0
    /\ run.path = "ceph"
    /\ Called(run.calls, CephAuthtool)

(* C3: with the ceph relation absent, local storage alone decides: the     *)
(* handler is ready exactly when at least one 'local-repository' storage   *)
(* is attached, and with the other handlers ready an invocation takes the  *)
(* local-storage branch exactly then.                                      *)
C3_LocalDecides ==
    /\ ~has_ceph_relation => (ready <=> storages > 0)
    /\ (Invoked /\ ~has_ceph_relation /\ other_handlers_ready) =>
          (run.path = "local" <=> storages > 0)

\* The local-storage branch taken with exactly one storage attached.
C3_Witness ==
    /\ ~has_ceph_relation /\ storages = 1
    /\ run.path = "local"

(* C4: scenario E.  An invocation with neither the ceph relation nor any   *)
(* local storage leaves the unit Blocked with the missing-storage message, *)
(* having made no call (no command, no init_service, no start_service).    *)
C4_ScenarioE ==
    (Invoked /\ other_handlers_ready /\ ~has_ceph_relation /\ storages = 0) =>
        /\ unit_status = BlockedStatus
        /\ run.calls = <<>>

(* C5: scenario C.  Every invocation with the ceph relation present but    *)
(* not ready (the parent's check fails, or the key is absent) returns      *)
(* early: the status after it is not Blocked, init_service is not called   *)
(* and the rendered configuration is what it was; this holds of every      *)
(* invocation, however many events have been delivered before.             *)
C5_ScenarioC ==
    [][ (run'.path # "idle" /\ has_ceph_relation
            /\ (~super_ready \/ ceph_key = NoKey)) =>
          /\ unit_status' # BlockedStatus
          /\ ~Called(run'.calls, "init_service")
          /\ rendered' = rendered
          /\ run'.path \in {"relations_not_ready", "wait_key"} ]_vars

\* The key gate reached: every handler ready, the key absent.
C5_Witness ==
    /\ has_ceph_relation /\ super_ready /\ ceph_key = NoKey
    /\ pebble_ready
    /\ run.path = "wait_key"

(* C6: scenario D.  An invocation with every handler ready, the ceph       *)
(* relation present with key K, pebble ready and no command failing makes  *)
(* exactly three ph.execute calls, 'apt update', 'apt install -y           *)
(* ceph-common' and 'ceph-authtool ... --add-key=K' in this order, and     *)
(* calls init_service only after them, rendering the ceph contexts.        *)
C6_ScenarioD ==
    (Invoked /\ other_handlers_ready /\ has_ceph_relation /\ super_ready
        /\ ceph_key # NoKey /\ pebble_ready /\ run.failed = 0) =>
        /\ Len(run.calls) >= 4
        /\ SubSeq(run.calls, 1, 4) =
              << Call(AptUpdate, NoKey), Call(AptInstall, NoKey),
                 Call(CephAuthtool, ceph_key), Call("init_service", NoKey) >>
        /\ Len(Executed(run.calls)) = 3
        /\ container.keyring = ceph_key
        /\ \E i, j \in DOMAIN rendered.config :
              /\ rendered.config[i] = "ceph_config"
              /\ rendered.config[j] = "cinder_ceph"
        /\ rendered.ceph = {<<"key", ceph_key>>}

\* Scenario D has run with the second key, with local storage attached too.
C6_Witness ==
    /\ Invoked /\ other_handlers_ready /\ has_ceph_relation /\ super_ready
    /\ ceph_key = "AQC2" /\ pebble_ready /\ run.failed = 0
    /\ storages > 0
    /\ Called(run.calls, "init_service")

(* C7: fatal provisioning.  When the n-th provisioning command fails, the  *)
(* invocation ends in the exception: the calls it made are the first n     *)
(* commands and nothing else (no later command, no init_service, no        *)
(* inherited configure, no start_service), status, rendered configuration, *)
(* bootstrap flag and service are what they were, and the commands before  *)
(* the n-th keep their effect in the container.                            *)
C7_FatalProvisioning ==
    [][ run'.failed # 0 =>
          /\ run'.raised
          /\ run'.calls =
                SubSeq(<< Call(AptUpdate, NoKey), Call(AptInstall, NoKey),
                          Call(CephAuthtool, ceph_key) >>, 1, run'.failed)
          /\ UNCHANGED <<unit_status, rendered, bootstrapped, service_started>>
          /\ run'.failed >= 2 => container'.apt_updated
          /\ run'.failed >= 3 => container'.ceph_common
          /\ container.apt_updated => container'.apt_updated
          /\ container.ceph_common => container'.ceph_common
          /\ container'.keyring = container.keyring ]_vars

\* The package install failed in a container that had nothing installed:
\* the repository refresh stays applied.
C7_Witness ==
    /\ run.failed = 2 /\ run.raised
    /\ container.apt_updated /\ ~container.ceph_common
    /\ ~bootstrapped

(* C8: scenario A.  An invocation while relation_handlers_ready() is False *)
(* returns at once: unit status, container, rendered configuration,        *)
(* bootstrap flag and service are unchanged and no call is made.           *)
C8_ScenarioA ==
    [][ (run'.path # "idle" /\ ~relation_handlers_ready) =>
          /\ UNCHANGED charm_vars
          /\ run'.calls = <<>>
          /\ run'.path = "relations_not_ready" ]_vars

\* The first gate alone stops the invocation: storage and pebble are ready,
\* another relation is not.
C8_Witness ==
    /\ ~other_handlers_ready /\ ready /\ pebble_ready
    /\ run.path = "relations_not_ready"

\* Scenario B: no ceph relation, one local storage, the rest ready.
ScenarioB ==
    /\ ~has_ceph_relation /\ storages = 1
    /\ other_handlers_ready /\ pebble_ready

Running == unit_status = ActiveStatus /\ bootstrapped /\ service_started

C10_Idempotent ==
    [][ (run.path # "idle" /\ ~run.raised /\ run'.path # "idle") =>
          /\ unit_status' = unit_status
          /\ rendered' = rendered
          /\ bootstrapped' = bootstrapped ]_vars

\* A second invocation in a row that rendered the ceph configuration again.
C10_Witness ==
    /\ run.again /\ ~run.raised
    /\ run.path = "ceph"
    /\ Called(run.calls, "init_service")
    /\ bootstrapped

\* The position of the first call of op in calls (0: not called).
FirstCall(calls, op) ==
    IF Called(calls, op)
    THEN CHOOSE i \in DOMAIN calls :
            /\ calls[i].op = op
            /\ \A j \in 1..(i - 1) : calls[j].op # op
    ELSE 0

(* C11: the bootstrap flag is monotonic: no step takes it from set to      *)
(* unset; and start_service is called only in an invocation that has run   *)
(* the inherited configure step before it and ends with the flag set.      *)
C11_FlagMonotonic ==
    /\ [][bootstrapped => bootstrapped']_vars
    /\ [](Invoked /\ Called(run.calls, "start_service") =>
            /\ bootstrapped
            /\ FirstCall(run.calls, "super.configure_charm") # 0
            /\ FirstCall(run.calls, "super.configure_charm")
                  < FirstCall(run.calls, "start_service"))

\* The flag stays set, and the service is started again, in an invocation
\* that finds the container no longer ready.
C11_Witness ==
    /\ bootstrapped /\ ~pebble_ready
    /\ Called(run.calls, "start_service")

\* An invocation that sees the flag unset after the inherited step starts
\* nothing.
C11_WitnessUnset ==
    /\ ~bootstrapped /\ run.path \in {"ceph", "local"}
    /\ ~Called(run.calls, "start_service")

(* C12: rendering and start only on a positive verdict.  Every invocation  *)
(* that calls init_service, the inherited configure step or start_service  *)
(* found every relation handler ready and either the ceph relation present *)
(* with a non-empty key, or the ceph relation absent with at least one     *)
(* local storage.                                                          *)
C12_PositiveVerdict ==
    (Invoked /\ (\/ Called(run.calls, "init_service")
                 \/ Called(run.calls, "super.configure_charm")
                 \/ Called(run.calls, "start_service"))) =>
        /\ other_handlers_ready
        /\ ready
        /\ \/ has_ceph_relation /\ ceph_key # NoKey
           \/ ~has_ceph_relation /\ storages > 0

\* A rendering invocation on the ceph backend with local storage attached.
C12_Witness ==
    /\ Called(run.calls, "init_service")
    /\ Called(run.calls, "super.configure_charm")
    /\ has_ceph_relation /\ ceph_key # NoKey /\ storages > 0
    /\ ~run.again

(* C13: context export.  The handler's context() is the mapping           *)
(* negotiated over the ceph relation (here its key attribute) while the    *)
(* relation exists, and the empty mapping when it does not; what           *)
(* init_service renders for the handler is that mapping on the ceph        *)
(* backend and the empty one on local storage.                             *)
C13_ContextExport ==
    /\ has_ceph_relation => context = {<<"key", ceph_key>>}
    /\ ~has_ceph_relation => context = {}
    /\ (Invoked /\ Called(run.calls, "init_service")) =>
          rendered.ceph = IF run.path = "ceph"
                          THEN {<<"key", ceph_key>>} ELSE {}

\* Local storage rendered, with the empty mapping, on a unit that had been
\* provisioned for ceph before.
C13_Witness ==
    /\ run.path = "local" /\ Called(run.calls, "init_service")
    /\ container.keyring # NoKey
    /\ rendered.ceph = {}

(* C14: the verdict is history-independent.  The branch an invocation      *)
(* takes is a function of the current relation and storage state alone,    *)
(* whatever was provisioned, rendered or started before; in particular     *)
(* with the ceph relation gone and local storage attached it takes the     *)
(* local-storage branch and executes no command.                           *)
C14_HistoryIndependent ==
    /\ ready = IF ceph_relation THEN ceph_parent_ready ELSE storages > 0
    /\ Invoked =>
          /\ run.path =
                IF ~other_handlers_ready THEN "relations_not_ready"
                ELSE IF ceph_relation
                THEN IF ~ceph_parent_ready THEN "relations_not_ready"
                     ELSE IF ceph_key = NoKey THEN "wait_key" ELSE "ceph"
                ELSE IF storages > 0 THEN "local" ELSE "relations_not_ready"
          /\ (~ceph_relation /\ storages > 0) => Executed(run.calls) = <<>>

\* The local-storage branch taken after the ceph relation was removed: the
\* keyring and the bootstrap of the ceph days are still there.
C14_Witness ==
    /\ ~ceph_relation /\ storages > 0
    /\ container.keyring # NoKey /\ container.ceph_common /\ bootstrapped
    /\ run.path = "local"
    /\ Called(run.calls, "start_service")

C15_Witness ==
    /\ run.path = "ceph" /\ ready /\ relation_handlers_ready
    /\ storages = 0

C16_BackendDecidedOnce ==
    Invoked =>
        /\ Executed(run.calls) # <<>> <=> (run.path = "ceph" /\ pebble_ready)
        /\ run.path = "ceph" => (has_ceph_relation /\ ceph_key # NoKey)
        /\ (run.path = "ceph" /\ pebble_ready /\ run.failed = 0) =>
              Len(Executed(run.calls)) = 3
        /\ \A i \in DOMAIN run.calls :
              run.calls[i].op = CephAuthtool =>
                  /\ run.calls[i].key # NoKey
                  /\ run.calls[i].key = ceph_key
                  /\ run.path = "ceph"
        /\ run.path = "local" => Executed(run.calls) = <<>>

\* The ceph branch with pebble ready, the keyring command reached after a
\* key rotation.
C16_Witness ==
    /\ run.path = "ceph" /\ pebble_ready
    /\ Called(run.calls, CephAuthtool)
    /\ container.keyring = "AQC2" /\ ceph_key = "AQC2"
    /\ run.again

(* C17: pebble not ready.  An invocation that passes both gates while the *)
(* glance-api pebble handler is not ready executes no command and does not *)
(* call init_service, the rendered configuration staying as it was, yet it *)
(* runs the inherited configure step and calls start_service exactly when  *)
(* the bootstrap flag is set after that step.                              *)
C17_PebbleNotReady ==
    [][ (run'.path # "idle" /\ relation_handlers_ready
            /\ (\/ has_ceph_relation /\ ceph_key # NoKey
                \/ ~has_ceph_relation /\ storages > 0)
            /\ ~pebble_ready) =>
          /\ Executed(run'.calls) = <<>>
          /\ ~Called(run'.calls, "init_service")
          /\ rendered' = rendered
          /\ container' = container
          /\ ~run'.raised
          /\ Called(run'.calls, "super.configure_charm")
          /\ Called(run'.calls, "start_service") <=> bootstrapped' ]_vars

\* The service started, with pebble not ready, on a unit bootstrapped
\* earlier.
C17_Witness ==
    /\ ~pebble_ready /\ run.path = "ceph"
    /\ bootstrapped
    /\ run.calls = << Call("super.configure_charm", NoKey),
                      Call("start_service", NoKey) >>

(* C18: configure_charm writes the unit status only on the no-storage      *)
(* branch.  An invocation that leaves the status Blocked, having found it  *)
(* otherwise, ran with the ceph relation absent and no local storage, and  *)
(* made no call; and an invocation that defers on the key leaves status,   *)
(* container, rendered configuration, service and bootstrap flag unchanged *)
(* and makes no call.                                                      *)
C18_StatusFrame ==
    [][ /\ (run'.path # "idle" /\ unit_status' = BlockedStatus
               /\ unit_status # BlockedStatus) =>
              /\ ~has_ceph_relation /\ storages = 0
              /\ run'.calls = <<>>
        /\ (run'.path # "idle" /\ has_ceph_relation /\ ceph_key = NoKey) =>
              /\ UNCHANGED charm_vars
              /\ run'.calls = <<>>
        /\ (run'.path # "idle" /\ run'.calls # <<>>) =>
              unit_status' # BlockedStatus ]_vars

\* The key deferral on a unit that has things to lose: bootstrapped,
\* rendered for local storage, pebble ready.
C18_Witness ==
    /\ run.path = "wait_key"
    /\ bootstrapped /\ service_started /\ pebble_ready /\ storages > 0
    /\ unit_status = ActiveStatus
    /\ rendered.ceph = {}

Contains(seq, x) == \E i \in DOMAIN seq : seq[i] = x

(* C19: the ceph configuration is all-or-nothing and follows the presence  *)
(* of the relation alone.  config_contexts holds ceph_config and           *)
(* cinder_ceph exactly when container_configs holds /etc/ceph/ceph.conf,   *)
(* exactly when the ceph relation is present, key or no key; with the      *)
(* relation absent the handler's context is empty.                         *)
C19_CephConfigAllOrNothing ==
    /\ Contains(config_contexts, "ceph_config") <=> has_ceph_relation
    /\ Contains(config_contexts, "cinder_ceph") <=> has_ceph_relation
    /\ Contains(container_configs, ceph_conf) <=> has_ceph_relation
    /\ ~has_ceph_relation => context = {}
    /\ (Invoked /\ Called(run.calls, "init_service")) =>
          /\ Contains(rendered.config, "ceph_config") <=> has_ceph_relation
          /\ Contains(rendered.files, ceph_conf) <=> has_ceph_relation

\* The relation present without its key: the ceph configuration is already
\* part of the charm's contexts and files.
C19_Witness ==
    /\ has_ceph_relation /\ ceph_key = NoKey
    /\ Contains(config_contexts, "ceph_config")
    /\ Contains(container_configs, ceph_conf)
    /\ Invoked

=============================================================================
